---- MODULE Spec2Model ----
(***************************************************************************)
(* Real-time layer of NyelvSzo v2: the WebSocketManager (connection        *)
(* registry, rooms, user sessions, protocol handlers), the EventStore      *)
(* (append / read over a transactional document store) and the             *)
(* NotificationService delivery processor.                                 *)
(***************************************************************************)
EXTENDS Integers, Sequences, FiniteSets, TLC

VARIABLES
    clients,        \* WebSocketManager.clients: clientId -> connection record
    rooms,          \* WebSocketManager.rooms: roomId -> set of clientIds
    userSessions,   \* WebSocketManager.userSessions: userId -> set of clientIds
    messageQueue,   \* WebSocketManager.messageQueue: clientId -> number of queued frames
    nextClientId,   \* connections accepted so far + 1 (generateClientId never repeats)
    lastOp,         \* the handler that ran last and the frames it passed to sendToClient
    events,         \* the eventstore collection: the committed Event documents
    txns,           \* appendToStream calls in flight
    snapshots,      \* the snapshots collection: aggregateId -> aggregateVersion
    reads,          \* readAggregateEvents calls: their position and result
    writeEpoch,     \* number of committed appends and snapshot writes so far
    deliveryQueue,  \* NotificationService.deliveryQueue, flattened: task id -> task
    rateLimiter,    \* NotificationService.rateLimiter: key -> timestamps of admitted requests
    lastSend,       \* the last sendNotification call: its number, input and return value
    ticks,          \* delivery-processor ticks in flight: their batch and position
    now,            \* wall clock, in seconds
    tickDue,        \* whether the interval timer has yet to fire for the current instant
    sweepDue,       \* whether the heartbeat timer has yet to fire for the current instant
    listeners,      \* EventStore listeners on 'stream:<channel>': channel -> number registered
    browser         \* the browser's WebSocketClient: its fields and the frames it has sent

wsVars == <<clients, rooms, userSessions, messageQueue, nextClientId>>
esVars == <<events, txns, snapshots, reads, writeEpoch>>
nsVars == <<deliveryQueue, rateLimiter, lastSend, ticks, now, tickDue, sweepDue>>
vars == <<clients, rooms, userSessions, messageQueue, nextClientId, lastOp,
          events, txns, snapshots, reads, writeEpoch,
          deliveryQueue, rateLimiter, lastSend, ticks, now, tickDue, sweepDue,
          listeners, browser>>

----------------------------------------------------------------------------
(* Bounds of the model *)

MaxConn == 2        \* connections accepted over a run
MaxQueue == 3       \* frames the model lets pile up in one connection's backlog
MaxAppends == 2     \* appendToStream calls over a run
MaxEdits == 1       \* entry_edit frames that reach appendToStream over a run
MaxRetries == 1     \* withTransaction re-runs of one callback
MaxReads == 2       \* readAggregateEvents calls over a run
MaxWrites == 2      \* store writes after which no further snapshot is taken
MaxTime == 12       \* seconds the delivery model's clock runs
MaxTasks == 2       \* delivery tasks created over a run
MaxTicks == 2       \* delivery-processor ticks in flight at once
MaxBeats == 10      \* steps the heartbeat model's clock runs
MaxListeners == 2   \* listeners on one stream name the model tells apart
MaxMembers == 3     \* connections the room model starts with
MaxMessages == 2    \* messages the application hands to the browser client's send()
MaxLogins == 1      \* logins after which the application calls authenticate()
MaxConnects == 2    \* connections the browser client opens over a run
MaxSends == 1       \* sendNotification calls over a run of the request model

----------------------------------------------------------------------------
(* Universe of inputs *)

ConnIds == 1 .. (IF MaxConn > MaxMembers THEN MaxConn ELSE MaxMembers)
Users == {"u1", "u2"}
NoUser == "null"
NoRole == -1
EntryIds == {"42", "public"}
RoomOf(entryId) == "entry-" \o entryId
ChannelOf(entryId) == "entries:" \o entryId
StreamOf(entryId) == "entry-" \o entryId
RoomIds == {RoomOf(e) : e \in EntryIds}
ChannelNames == {"entries:public", "entries:editing", "admin:*"}
ChannelLists == {<<>>} \cup {<<a>> : a \in ChannelNames}
                  \cup {<<a, b>> : a \in ChannelNames, b \in {"entries:public", "admin:*"}}

\* decoded payloads of the credentials the clients hold; jwt.verify checks the
\* signature and the expiry, not the fields: the last payload carries no role
Tokens == {[userId |-> "u1", role |-> 1],
           [userId |-> "u1", role |-> 2],
           [userId |-> "u2", role |-> 3],
           [userId |-> "u1", role |-> NoRole]}

Range(s) == {s[i] : i \in DOMAIN s}

----------------------------------------------------------------------------
(* WebSocketManager *)

\* the record handleConnection registers; lastSignal is an observation the code does
\* not keep: when the connection opened or last sent a pong or a heartbeat frame
NewClient == [userId |-> NoUser, role |-> NoRole, subscriptions |-> {}, open |-> TRUE,
              lastHeartbeat |-> now, lastSignal |-> now]

\* handleMessage, before it routes a parsed frame: client.lastHeartbeat = new Date()
Touch(cl, c) == [cl EXCEPT ![c].lastHeartbeat = now]

Frame(to, type, code, channels, room) ==
    [to |-> to, type |-> type, code |-> code, channels |-> channels, room |-> room]

\* sendToClient: TRUE when the frame is written to the transport
Writable(cl, c) == c \in DOMAIN cl /\ cl[c].open

\* the frames of F with sendToClient's result for each, against registry cl
Sent(F, cl) == {[frame |-> f, delivered |-> Writable(cl, f.to)] : f \in F}

\* sendToClient's backlog: a frame for a missing or non-open client is queued
Enqueue(F, cl) ==
    [c \in ConnIds |->
        messageQueue[c] + Cardinality({f \in F : f.to = c /\ ~Writable(cl, c)})]

sendError(c, code) == Frame(c, "error", code, <<>>, "")

RoleGe(role, n) == role # NoRole /\ role >= n
RoleLt(role, n) == role # NoRole /\ role < n

getAllowedChannels(role) ==
    {"entries:public", "search:suggestions"}
        \cup (IF RoleGe(role, 2) THEN {"entries:editing", "collaboration:*"} ELSE {})
        \cup (IF RoleGe(role, 3) THEN {"admin:*", "system:*"} ELSE {})

broadcastToSubscribers(cl, channel, exclude) ==
    {c \in DOMAIN cl : c \notin exclude /\ channel \in cl[c].subscriptions}

\* a fan-out that does not skip the excluded connections
broadcastToRoomAll(rm, roomId, exclude) ==
    IF roomId \in DOMAIN rm THEN rm[roomId] ELSE {}

\* broadcastToRoom: the members sendToClient is called for
broadcastToRoom(rm, roomId, exclude) ==
    IF roomId \in DOMAIN rm THEN rm[roomId] \ exclude ELSE {}

\* broadcastToRoom's return value: the calls of sendToClient that returned true
sentCount(rm, cl, roomId, exclude) ==
    Cardinality({m \in broadcastToRoom(rm, roomId, exclude) : Writable(cl, m)})

\* what is kept of the last step: the handler, its connection, the channel list and the
\* entry or room id of the frame, the rooms the step deleted from the map (rm is the
\* map it leaves), and every frame it passed to sendToClient
Op(op, c, channels, arg, rm, F, cl) ==
    [op |-> op, c |-> c, channels |-> channels, arg |-> arg,
     closed |-> (DOMAIN rooms) \ (DOMAIN rm), emitted |-> Sent(F, cl)]

\* every handler goes through sendToClient; the model caps the backlog
EmitIn(op, c, channels, arg, rm, F, cl) ==
    /\ lastOp' = Op(op, c, channels, arg, rm, F, cl)
    /\ messageQueue' = Enqueue(F, cl)
    /\ \A k \in ConnIds : messageQueue'[k] <= MaxQueue

\* a handler that leaves the room map alone
Emit(op, c, channels, arg, F, cl) == EmitIn(op, c, channels, arg, rooms, F, cl)

handleConnection ==
    /\ nextClientId <= MaxConn
    /\ LET c == nextClientId
           cl == clients @@ (c :> NewClient)
       IN /\ clients' = cl
          /\ nextClientId' = c + 1
          /\ Emit("connection", c, <<>>, "", {Frame(c, "connection", "", <<>>, "")}, cl)
    /\ UNCHANGED <<rooms, userSessions>>
    /\ UNCHANGED <<esVars, nsVars, listeners, browser>>

\* the frames handleMessage answers itself: text that is no JSON, the JSON literal
\* null, any other JSON value without a type, and a type the switch does not know
RejectedFrames == {"not json", "null", "no type", "unknown type"}

\* the code handleMessage answers with: JSON.parse throws on text that is no JSON;
\* message.type throws a TypeError on null, which the outer catch reports
RejectCode(frame) ==
    CASE frame = "not json" -> "INVALID_JSON"
      [] frame = "null" -> "INTERNAL_ERROR"
      [] frame = "no type" -> "MISSING_TYPE"
      [] OTHER -> "UNKNOWN_MESSAGE_TYPE"

\* handleMessage for a frame it routes to no handler; the activity timestamp is
\* refreshed once the frame has parsed
handleMessage(c, frame) ==
    /\ c \in DOMAIN clients
    /\ clients' = IF frame = "not json" THEN clients ELSE Touch(clients, c)
    /\ Emit("message", c, <<>>, frame, {sendError(c, RejectCode(frame))}, clients)
    /\ UNCHANGED <<rooms, userSessions, nextClientId>>
    /\ UNCHANGED <<esVars, nsVars, listeners, browser>>

\* a failed auth that also drops the identity the connection holds
handleAuthFailedResets(c, code) ==
    /\ c \in DOMAIN clients
    /\ Emit("auth_failed", c, <<>>, code, {sendError(c, code)}, clients)
    /\ clients' = [Touch(clients, c) EXCEPT ![c].userId = NoUser, ![c].role = NoRole]
    /\ UNCHANGED <<rooms, userSessions, nextClientId>>
    /\ UNCHANGED <<esVars, nsVars, listeners, browser>>

\* the catch block / missing-token branch of handleAuth: nothing but an error frame
handleAuthFailed(c, code) ==
    /\ c \in DOMAIN clients
    /\ Emit("auth_failed", c, <<>>, code, {sendError(c, code)}, clients)
    /\ clients' = Touch(clients, c)
    /\ UNCHANGED <<rooms, userSessions, nextClientId>>
    /\ UNCHANGED <<esVars, nsVars, listeners, browser>>

\* handleAuth's registry update for a verified credential
BindIdentity(cl, c, decoded) ==
    [cl EXCEPT ![c].userId = decoded.userId, ![c].role = decoded.role]

\* handleAuth's session tracking for a verified credential
TrackSession(us, c, decoded) ==
    IF decoded.userId \in DOMAIN us
    THEN [us EXCEPT ![decoded.userId] = @ \cup {c}]
    ELSE us @@ (decoded.userId :> {c})

handleAuth(c, decoded) ==
    /\ c \in DOMAIN clients
    /\ clients' = Touch(BindIdentity(clients, c, decoded), c)
    /\ userSessions' = TrackSession(userSessions, c, decoded)
    /\ Emit("auth", c, <<>>, "", {Frame(c, "auth_success", "", <<>>, "")}, clients)
    /\ UNCHANGED <<rooms, nextClientId>>
    /\ UNCHANGED <<esVars, nsVars, listeners, browser>>

\* a subscribe loop without the allowedChannels.includes test
GrantedUnfiltered(channels, role) == channels

\* handleSubscribe's loop: the requested names that pass the filter, in request order
Granted(channels, role) ==
    SelectSeq(channels, LAMBDA ch : ch \in getAllowedChannels(role))

\* the channel names for which channel.startsWith('entries:') holds
EntriesChannels == {"entries:public", "entries:editing"}

\* eventStore.subscribeToStream(channel, ...) for every granted entries: channel of the
\* request, once per occurrence; the model stops counting at MaxListeners
subscribeToStream(ls, subscriptions) ==
    [ch \in DOMAIN ls |->
        LET n == ls[ch] + Cardinality({i \in DOMAIN subscriptions :
                                         subscriptions[i] = ch /\ ch \in EntriesChannels})
        IN IF n > MaxListeners THEN MaxListeners ELSE n]

handleSubscribe(c, channels) ==
    /\ c \in DOMAIN clients
    /\ LET subscriptions == Granted(channels, clients[c].role)
       IN /\ clients' = Touch([clients EXCEPT ![c].subscriptions = @ \cup Range(subscriptions)], c)
          /\ listeners' = subscribeToStream(listeners, subscriptions)
          /\ Emit("subscribe", c, channels, "",
                  {Frame(c, "subscribed", "", subscriptions, "")}, clients)
    /\ UNCHANGED <<rooms, userSessions, nextClientId>>
    /\ UNCHANGED <<esVars, nsVars, browser>>

\* handleUnsubscribe's loop: each held name once, at its first occurrence
RECURSIVE Unsubscribed(_, _)
Unsubscribed(channels, held) ==
    IF channels = <<>> THEN <<>>
    ELSE IF Head(channels) \in held
         THEN <<Head(channels)>> \o Unsubscribed(Tail(channels), held \ {Head(channels)})
         ELSE Unsubscribed(Tail(channels), held)

handleUnsubscribe(c, channels) ==
    /\ c \in DOMAIN clients
    /\ LET unsubscribed == Unsubscribed(channels, clients[c].subscriptions)
       IN /\ clients' = Touch([clients EXCEPT ![c].subscriptions = @ \ Range(unsubscribed)], c)
          /\ Emit("unsubscribe", c, channels, "",
                  {Frame(c, "unsubscribed", "", unsubscribed, "")}, clients)
    /\ UNCHANGED <<rooms, userSessions, nextClientId>>
    /\ UNCHANGED <<esVars, nsVars, listeners, browser>>

\* handleJoinRoom's membership update: the room is created on first join
JoinRoom(rm, c, roomId) ==
    IF roomId \in DOMAIN rm
    THEN [rm EXCEPT ![roomId] = @ \cup {c}]
    ELSE rm @@ (roomId :> {c})

handleJoinRoom(c, roomId) ==
    /\ c \in DOMAIN clients
    /\ LET rm == JoinRoom(rooms, c, roomId)
       IN /\ rooms' = rm
          /\ Emit("join_room", c, <<>>, roomId,
                  {Frame(c, "room_joined", "", <<>>, roomId)}
                    \cup {Frame(m, "user_joined", "", <<>>, roomId) :
                            m \in broadcastToRoom(rm, roomId, {c})},
                  clients)
    /\ clients' = Touch(clients, c)
    /\ UNCHANGED <<userSessions, nextClientId>>
    /\ UNCHANGED <<esVars, nsVars, listeners, browser>>

\* a room map without the rooms of R
DropRooms(rm, R) == [r \in (DOMAIN rm) \ R |-> rm[r]]

\* a leave that forgets the rooms.delete of an emptied room
LeaveRoomKeepsEmpty(rm, c, roomId) ==
    IF roomId \in DOMAIN rm /\ c \in rm[roomId]
    THEN [rm EXCEPT ![roomId] = @ \ {c}]
    ELSE rm

\* handleLeaveRoom's membership update: the member goes, and the room with its last member
LeaveRoom(rm, c, roomId) ==
    IF roomId \in DOMAIN rm /\ c \in rm[roomId]
    THEN IF rm[roomId] \ {c} = {}
         THEN DropRooms(rm, {roomId})
         ELSE [rm EXCEPT ![roomId] = @ \ {c}]
    ELSE rm

handleLeaveRoom(c, roomId) ==
    /\ c \in DOMAIN clients
    /\ LET rm == LeaveRoom(rooms, c, roomId)
           \* the handler keeps its reference to the room's Set after the map entry is gone
           room == IF roomId \in DOMAIN rooms THEN rooms[roomId] \ {c} ELSE {}
       IN /\ rooms' = rm
          /\ EmitIn("leave_room", c, <<>>, roomId, rm,
                  {Frame(c, "room_left", "", <<>>, roomId)}
                    \cup (IF room # {}
                          THEN {Frame(m, "user_left", "", <<>>, roomId) :
                                  m \in broadcastToRoom(rm, roomId, {})}
                          ELSE {}),
                  clients)
    /\ clients' = Touch(clients, c)
    /\ UNCHANGED <<userSessions, nextClientId>>
    /\ UNCHANGED <<esVars, nsVars, listeners, browser>>

\* a handler that takes every connection for an authenticated one
UnauthenticatedNever(client) == FALSE

\* the guard of the commands that need an identity: !client.userId
Unauthenticated(client) == client.userId = NoUser

handleChatMessage(c, roomId) ==
    /\ c \in DOMAIN clients
    /\ IF Unauthenticated(clients[c])
       THEN Emit("chat_message", c, <<>>, roomId, {sendError(c, "UNAUTHORIZED")}, clients)
       ELSE Emit("chat_message", c, <<>>, roomId,
                 {Frame(m, "chat_message", "", <<>>, roomId) :
                    m \in broadcastToRoom(rooms, roomId, {c})},
                 clients)
    /\ clients' = Touch(clients, c)
    /\ UNCHANGED <<rooms, userSessions, nextClientId>>
    /\ UNCHANGED <<esVars, nsVars, listeners, browser>>

\* handleTyping: silent for an unauthenticated sender
handleTyping(c, roomId) ==
    /\ c \in DOMAIN clients
    /\ IF Unauthenticated(clients[c])
       THEN Emit("typing", c, <<>>, roomId, {}, clients)
       ELSE Emit("typing", c, <<>>, roomId,
                 {Frame(m, "user_typing", "", <<>>, roomId) :
                    m \in broadcastToRoom(rooms, roomId, {c})},
                 clients)
    /\ clients' = Touch(clients, c)
    /\ UNCHANGED <<rooms, userSessions, nextClientId>>
    /\ UNCHANGED <<esVars, nsVars, listeners, browser>>

\* handleDisconnection's session cleanup: only under the identity the client holds now
UntrackSession(us, cl, c) ==
    LET u == cl[c].userId
    IN IF u # NoUser /\ u \in DOMAIN us
       THEN IF us[u] \ {c} = {}
            THEN [v \in (DOMAIN us) \ {u} |-> us[v]]
            ELSE [us EXCEPT ![u] = @ \ {c}]
       ELSE us

\* handleDisconnection's room loop: the client leaves every room, empty rooms go
LeaveAllRooms(rm, c) ==
    LET left == [r \in DOMAIN rm |-> rm[r] \ {c}]
    IN DropRooms(left, {r \in DOMAIN rm : left[r] = {}})

\* the ws 'close' event of a registered connection
handleDisconnection(c) ==
    /\ c \in DOMAIN clients
    /\ userSessions' = UntrackSession(userSessions, clients, c)
    /\ rooms' = LeaveAllRooms(rooms, c)
    /\ clients' = [k \in (DOMAIN clients) \ {c} |-> clients[k]]
    /\ EmitIn("disconnect", c, <<>>, "", LeaveAllRooms(rooms, c),
            {Frame(m, "user_left", "", <<>>, r) :
               <<m, r>> \in {mr \in ConnIds \X DOMAIN rooms :
                               /\ c \in rooms[mr[2]]
                               /\ mr[1] \in rooms[mr[2]] \ {c}}},
            clients)
    /\ UNCHANGED nextClientId
    /\ UNCHANGED <<esVars, nsVars, listeners, browser>>

\* POST /api/websocket/disconnect/:clientId: a last frame, then ws.close()
adminDisconnect(c) ==
    /\ c \in DOMAIN clients
    /\ clients[c].open
    /\ clients' = [clients EXCEPT ![c].open = FALSE]
    /\ Emit("admin_disconnect", c, <<>>, "",
            {Frame(c, "admin_disconnect", "", <<>>, "")}, clients)
    /\ UNCHANGED <<rooms, userSessions, nextClientId>>
    /\ UNCHANGED <<esVars, nsVars, listeners, browser>>

----------------------------------------------------------------------------
(* WebSocketManager: heartbeat *)

HeartbeatInterval == 30     \* seconds between two sweeps
HeartbeatTimeout == 60      \* seconds of silence a sweep tolerates
ClockStep == HeartbeatInterval \div 3     \* the heartbeat model's clock advances in thirds

\* a sweep that already gives up on a connection at the limit
HeartbeatExpiredAtLimit(client, t) == t - client.lastHeartbeat >= HeartbeatTimeout

\* the sweep's test on one client: now - client.lastHeartbeat > 60000
HeartbeatExpired(client, t) == t - client.lastHeartbeat > HeartbeatTimeout

\* the ws 'pong' event
handlePong(c) ==
    /\ c \in DOMAIN clients
    /\ clients' = [clients EXCEPT ![c].lastHeartbeat = now, ![c].lastSignal = now]
    /\ Emit("pong", c, <<>>, "", {}, clients)
    /\ UNCHANGED <<rooms, userSessions, nextClientId>>
    /\ UNCHANGED <<esVars, nsVars, listeners, browser>>

\* a heartbeat frame
handleHeartbeat(c) ==
    /\ c \in DOMAIN clients
    /\ clients' = [Touch(clients, c) EXCEPT ![c].lastHeartbeat = now, ![c].lastSignal = now]
    /\ Emit("heartbeat", c, <<>>, "", {Frame(c, "heartbeat_ack", "", <<>>, "")}, clients)
    /\ UNCHANGED <<rooms, userSessions, nextClientId>>
    /\ UNCHANGED <<esVars, nsVars, listeners, browser>>

\* the interval callback of startHeartbeat: every open connection is terminated or pinged
Sweep ==
    /\ sweepDue
    /\ LET live == {c \in DOMAIN clients : clients[c].open}
           stale == {c \in live : HeartbeatExpired(clients[c], now)}
       IN /\ clients' = [c \in DOMAIN clients |->
                           IF c \in stale THEN [clients[c] EXCEPT !.open = FALSE]
                           ELSE clients[c]]
          /\ Emit("sweep", 0, <<>>, "",
                  {Frame(c, "ping", "", <<>>, "") : c \in live \ stale}, clients)
    /\ sweepDue' = FALSE
    /\ UNCHANGED <<rooms, userSessions, nextClientId>>
    /\ UNCHANGED <<esVars, deliveryQueue, rateLimiter, lastSend, ticks, now, tickDue>>
    /\ UNCHANGED <<listeners, browser>>

\* a third of the sweep interval passes; at every full interval the timer is due
Elapse ==
    /\ ~sweepDue
    /\ now + ClockStep <= MaxBeats * ClockStep
    /\ now' = now + ClockStep
    /\ sweepDue' = ((now + ClockStep) % HeartbeatInterval = 0)
    /\ Emit("elapse", 0, <<>>, "", {}, clients)
    /\ UNCHANGED <<clients, rooms, userSessions, nextClientId>>
    /\ UNCHANGED <<esVars, deliveryQueue, rateLimiter, lastSend, ticks, tickDue>>
    /\ UNCHANGED <<listeners, browser>>


----------------------------------------------------------------------------
(* EventStore over the document store *)

StreamIds == {StreamOf(e) : e \in EntryIds}
NoCheck == -1

Max(S) == CHOOSE x \in S : \A y \in S : y <= x

StreamEvents(evs, streamId) == {e \in evs : e.streamId = streamId}

\* Event.findOne({streamId}, sort sequenceNumber desc) inside the transaction:
\* the head the transaction's snapshot shows
currentVersion(evs, streamId) ==
    IF StreamEvents(evs, streamId) = {} THEN 0
    ELSE Max({e.sequenceNumber : e \in StreamEvents(evs, streamId)})

\* eventsToInsert: sequenceNumber = currentVersion + index + 1
eventsToInsert(t, tx) ==
    {[streamId |-> tx.streamId, sequenceNumber |-> tx.head + i,
      aggregateId |-> tx.aggregateId, txn |-> t, index |-> i] : i \in 1 .. tx.n}

\* a collection without the unique index
KeyConflictNone(t, tx) == FALSE

\* the unique index {streamId, sequenceNumber}: a document to insert collides with a
\* committed document or with one another open transaction has written
KeyConflict(t, tx) ==
    \E d \in eventsToInsert(t, tx) :
        \/ \E e \in events :
              e.streamId = d.streamId /\ e.sequenceNumber = d.sequenceNumber
        \/ \E u \in DOMAIN txns :
              /\ u # t
              /\ txns[u].pc = "commit"
              /\ \E e \in eventsToInsert(u, txns[u]) :
                    e.streamId = d.streamId /\ e.sequenceNumber = d.sequenceNumber

\* an append without the optimistic concurrency check
VersionMismatchNone(expectedVersion, head) == FALSE

\* the optimistic concurrency check of appendToStream
VersionMismatch(expectedVersion, head) ==
    expectedVersion # NoCheck /\ head # expectedVersion

\* a step of the document store: no handler ran, no frame was sent
StoreOp == [op |-> "store", c |-> 0, channels |-> <<>>, arg |-> "", closed |-> {}, emitted |-> {}]

\* what a call of appendToStream has handed to its caller: nothing yet
NoResult == [defined |-> FALSE, events |-> <<>>]

\* the value appendToStream resolves with: insertedEvents is returned by the callback
\* to withTransaction, and the function itself has no return statement
AppendResult(t, tx) == [defined |-> FALSE, events |-> <<>>]

\* the record kept of a call that has settled with its caller
Settled(tx, pc) ==
    [pc |-> pc, streamId |-> tx.streamId, aggregateId |-> tx.aggregateId, n |-> tx.n,
     expectedVersion |-> NoCheck, base |-> 0, head |-> 0, retries |-> 0,
     owner |-> tx.owner, entryId |-> tx.entryId, err |-> tx.err, emitted |-> tx.emitted,
     result |-> tx.result]

\* a call of appendToStream; base is the stream's head at the moment of the call,
\* emitted the highest sequence number the call has emitted so far
NewTxn(streamId, aggregateId, n, expectedVersion, owner, entryId) ==
    [pc |-> "read", streamId |-> streamId, aggregateId |-> aggregateId, n |-> n,
     expectedVersion |-> expectedVersion,
     base |-> IF owner = 0 THEN currentVersion(events, streamId) ELSE 0,
     head |-> 0, retries |-> 0,
     owner |-> owner, entryId |-> entryId, err |-> "", emitted |-> 0,
     result |-> NoResult]

\* emit('stream:<streamId>') for each inserted event: every listener handleSubscribe has
\* registered for the name broadcasts an event frame to the name's subscribers. The
\* frame's code is the listener's number, its channel list holds the sequence number
StreamListenerFrames(tx) ==
    IF tx.streamId \in DOMAIN listeners
    THEN {Frame(k, "event", ToString(j), <<ToString(tx.head + i)>>, tx.streamId) :
            <<k, j, i>> \in broadcastToSubscribers(clients, tx.streamId, {})
                              \X (1 .. listeners[tx.streamId]) \X (1 .. tx.n)}
    ELSE {}

\* appendToStream called by a caller of the EventStore API
appendToStream(streamId, entryId, n, expectedVersion) ==
    /\ Len(txns) < MaxAppends
    /\ txns' = Append(txns, NewTxn(streamId, entryId, n, expectedVersion, 0, entryId))
    /\ UNCHANGED <<events, snapshots, reads, writeEpoch>>
    /\ UNCHANGED <<wsVars, lastOp, nsVars, listeners, browser>>

\* the transaction callback up to insertMany: read the head, check the version
TxnRead(t) ==
    /\ t \in DOMAIN txns
    /\ txns[t].pc = "read"
    /\ LET head == currentVersion(events, txns[t].streamId)
       IN txns' = IF VersionMismatch(txns[t].expectedVersion, head)
                  THEN [txns EXCEPT ![t].pc = "thrown", ![t].head = head,
                                    ![t].err = "ConcurrencyError"]
                  ELSE [txns EXCEPT ![t].pc = "insert", ![t].head = head]
    /\ lastOp' = StoreOp
    /\ UNCHANGED <<events, snapshots, reads, writeEpoch>>
    /\ UNCHANGED <<wsVars, nsVars, listeners, browser>>

\* insertMany in the transaction, then the emits of the callback. A write conflict
\* is a transient transaction error: withTransaction runs the callback again.
TxnInsert(t) ==
    /\ t \in DOMAIN txns
    /\ txns[t].pc = "insert"
    /\ IF KeyConflict(t, txns[t])
       THEN /\ txns[t].retries < MaxRetries
            /\ txns' = [txns EXCEPT ![t].pc = "read", ![t].retries = @ + 1]
            /\ lastOp' = StoreOp
            /\ UNCHANGED messageQueue
       ELSE /\ txns' = [txns EXCEPT ![t].pc = "commit",
                                    ![t].emitted = IF txns[t].n > 0
                                                   THEN txns[t].head + txns[t].n ELSE @]
            \* subscribeToEventStore: 'eventAppended' goes to the events:<type> channel
            /\ Emit("eventAppended", 0, <<>>, txns[t].entryId,
                    {Frame(k, "domain_event", "", <<>>, "") :
                       k \in IF txns[t].n > 0
                             THEN broadcastToSubscribers(clients, "events:Entry", {})
                             ELSE {}}
                      \cup StreamListenerFrames(txns[t]),
                    clients)
    /\ UNCHANGED <<events, snapshots, reads, writeEpoch>>
    /\ UNCHANGED <<clients, rooms, userSessions, nextClientId, nsVars, listeners, browser>>

\* the commit of the transaction makes its documents visible
TxnCommit(t) ==
    /\ t \in DOMAIN txns
    /\ txns[t].pc = "commit"
    /\ events' = events \cup eventsToInsert(t, txns[t])
    /\ txns' = [txns EXCEPT ![t].pc = "committed"]
    /\ writeEpoch' = writeEpoch + 1
    /\ lastOp' = StoreOp
    /\ UNCHANGED <<snapshots, reads>>
    /\ UNCHANGED <<wsVars, nsVars, listeners, browser>>

\* the store fails an operation of the transaction: it aborts, nothing is written
TxnFail(t) ==
    /\ t \in DOMAIN txns
    /\ txns[t].pc \in {"read", "insert", "commit"}
    /\ txns' = [txns EXCEPT ![t].pc = "thrown", ![t].err = "StoreError"]
    /\ lastOp' = StoreOp
    /\ UNCHANGED <<events, snapshots, reads, writeEpoch>>
    /\ UNCHANGED <<wsVars, nsVars, listeners, browser>>

\* appendToStream settles for an API caller
AppendReturn(t) ==
    /\ t \in DOMAIN txns
    /\ txns[t].owner = 0
    /\ txns[t].pc \in {"committed", "thrown"}
    /\ txns' = IF txns[t].pc = "committed"
               THEN [txns EXCEPT ![t].pc = "done", ![t].result = AppendResult(t, txns[t])]
               ELSE [txns EXCEPT ![t].pc = "failed"]
    /\ UNCHANGED <<events, snapshots, reads, writeEpoch>>
    /\ UNCHANGED <<wsVars, lastOp, nsVars, listeners, browser>>

RECURSIVE SortBySeq(_)
\* .sort({sequenceNumber: 1}) of a result set
SortBySeq(S) ==
    IF S = {} THEN <<>>
    ELSE LET e == CHOOSE x \in S : \A y \in S : x.sequenceNumber <= y.sequenceNumber
         IN <<e>> \o SortBySeq(S \ {e})

readStreamEvents(streamId, fromVersion, toVersion) ==
    SortBySeq({e \in StreamEvents(events, streamId) :
                 e.sequenceNumber >= fromVersion /\ e.sequenceNumber <= toVersion})

\* createSnapshot: one upsert keyed by the aggregate
createSnapshot(aggregateId, version) ==
    /\ writeEpoch < MaxWrites
    /\ snapshots' = [a \in (DOMAIN snapshots) \cup {aggregateId} |->
                       IF a = aggregateId THEN version ELSE snapshots[a]]
    /\ writeEpoch' = writeEpoch + 1
    /\ lastOp' = StoreOp
    /\ UNCHANGED <<events, txns, reads>>
    /\ UNCHANGED <<wsVars, nsVars, listeners, browser>>

\* readAggregateEvents is called; epoch0 is the store's write count at the call
readAggregateEvents(aggregateId, fromVersion) ==
    /\ Len(reads) < MaxReads
    /\ reads' = Append(reads,
                   [pc |-> IF fromVersion = 0 THEN "snapshot" ELSE "events",
                    aggregateId |-> aggregateId, fromVersion |-> fromVersion,
                    startVersion |-> fromVersion, result |-> <<>>,
                    epoch0 |-> writeEpoch, epoch1 |-> writeEpoch])
    /\ lastOp' = StoreOp
    /\ UNCHANGED <<events, txns, snapshots, writeEpoch>>
    /\ UNCHANGED <<wsVars, nsVars, listeners, browser>>

\* the pseudo-event readAggregateEvents puts in front of the events after a snapshot
SnapshotRestored(aggregateId, aggregateVersion) ==
    [streamId |-> "SnapshotRestored", sequenceNumber |-> aggregateVersion,
     aggregateId |-> aggregateId, txn |-> 0, index |-> 0]

\* getSnapshot returns: the stored snapshot, or null when there is none or when the
\* lookup failed (found = FALSE: the catch block logs and returns null)
ReadSnapshot(r, found) ==
    /\ r \in DOMAIN reads
    /\ reads[r].pc = "snapshot"
    /\ LET a == reads[r].aggregateId
       IN reads' = IF found /\ a \in DOMAIN snapshots
                   THEN [reads EXCEPT ![r].pc = "events",
                                      ![r].startVersion = snapshots[a] + 1,
                                      ![r].result = <<SnapshotRestored(a, snapshots[a])>>]
                   ELSE [reads EXCEPT ![r].pc = "events"]
    /\ lastOp' = StoreOp
    /\ UNCHANGED <<events, txns, snapshots, writeEpoch>>
    /\ UNCHANGED <<wsVars, nsVars, listeners, browser>>

\* Event.find({aggregateId, aggregateType, sequenceNumber >= startVersion}) returns
ReadEvents(r) ==
    /\ r \in DOMAIN reads
    /\ reads[r].pc = "events"
    /\ reads' = [reads EXCEPT
                   ![r].pc = "done",
                   ![r].epoch1 = writeEpoch,
                   ![r].result = @ \o SortBySeq({e \in events :
                                     /\ e.aggregateId = reads[r].aggregateId
                                     /\ e.sequenceNumber >= reads[r].startVersion})]
    /\ lastOp' = StoreOp
    /\ UNCHANGED <<events, txns, snapshots, writeEpoch>>
    /\ UNCHANGED <<wsVars, nsVars, listeners, browser>>

\* Event.find fails: readAggregateEvents rethrows
ReadFail(r) ==
    /\ r \in DOMAIN reads
    /\ reads[r].pc = "events"
    /\ reads' = [reads EXCEPT ![r].pc = "thrown", ![r].result = <<>>,
                               ![r].epoch1 = writeEpoch]
    /\ lastOp' = StoreOp
    /\ UNCHANGED <<events, txns, snapshots, writeEpoch>>
    /\ UNCHANGED <<wsVars, nsVars, listeners, browser>>

----------------------------------------------------------------------------
(* handleEntryEdit: the handler awaits appendToStream *)

handleEntryEdit(c, entryId) ==
    /\ c \in DOMAIN clients
    /\ IF Unauthenticated(clients[c])
       THEN /\ Emit("entry_edit", c, <<>>, entryId, {sendError(c, "UNAUTHORIZED")}, clients)
            /\ UNCHANGED txns
       ELSE IF RoleLt(clients[c].role, 2)
       THEN /\ Emit("entry_edit", c, <<>>, entryId,
                    {sendError(c, "INSUFFICIENT_PERMISSIONS")}, clients)
            /\ UNCHANGED txns
       ELSE /\ Len(txns) < MaxAppends
            /\ txns' = Append(txns, NewTxn(StreamOf(entryId), entryId, 1, NoCheck, c, entryId))
            /\ Emit("entry_edit", c, <<>>, entryId, {}, clients)
    /\ clients' = Touch(clients, c)
    /\ UNCHANGED <<rooms, userSessions, nextClientId>>
    /\ UNCHANGED <<events, snapshots, reads, writeEpoch, nsVars, listeners, browser>>

\* the fan-out of handleEntryEdit after a successful append
EditFanOut(cl, c, entryId) == broadcastToSubscribers(cl, ChannelOf(entryId), {c})

\* handleEntryEdit resumes after appendToStream settled
EntryEditResume(t) ==
    /\ t \in DOMAIN txns
    /\ txns[t].owner # 0
    /\ txns[t].pc \in {"committed", "thrown"}
    /\ LET c == txns[t].owner
           entryId == txns[t].entryId
       IN IF txns[t].pc = "committed"
          THEN /\ txns' = [txns EXCEPT ![t] = Settled(@, "done")]
               /\ Emit("entry_edit_done", c, <<>>, entryId,
                       {Frame(k, "entry_updated", "", <<>>, RoomOf(entryId)) :
                          k \in EditFanOut(clients, c, entryId)},
                       clients)
          ELSE /\ txns' = [txns EXCEPT ![t] = Settled(@, "failed")]
               /\ Emit("entry_edit_failed", c, <<>>, entryId,
                       {sendError(c, "EDIT_FAILED")}, clients)
    /\ UNCHANGED <<clients, rooms, userSessions, nextClientId>>
    /\ UNCHANGED <<events, snapshots, reads, writeEpoch, nsVars, listeners, browser>>

----------------------------------------------------------------------------
(* NotificationService: the delivery queue and its processor *)

TickInterval == 5       \* seconds between two firings of the processor's timer
BatchSize == 10         \* tasks one tick takes
GuaranteedAttempts == 5 \* maxAttempts of a task with deliveryGuarantee
NoSchedule == -1        \* scheduleAt: null

\* const priorityOrder = { urgent: 3, high: 2, normal: 1, low: 0 }
priorityOrder(priority) ==
    CASE priority = "urgent" -> 3
      [] priority = "high" -> 2
      [] priority = "normal" -> 1
      [] priority = "low" -> 0

\* priorityOrder[priority] || 1
PriorityRank(priority) ==
    CASE priority = "urgent" -> 3
      [] priority = "high" -> 2
      [] OTHER -> 1

\* the task sendNotification creates for one recipient and one channel; tried is the
\* time of the task's last attempt
NewTask(userId, channel, priority, deliveryGuarantee) ==
    [userId |-> userId, channel |-> channel, priority |-> priority,
     deliveryGuarantee |-> deliveryGuarantee, scheduleAt |-> NoSchedule,
     attempts |-> 0, maxAttempts |-> IF deliveryGuarantee THEN GuaranteedAttempts ELSE 1,
     status |-> "pending", tried |-> 0]

\* the recipients of a request: a user of the application, or an address without one
Recipients == {[userId |-> "u1", email |-> "u1@example.org"],
               [userId |-> NoUser, email |-> "guest@example.org"]}
Templates == {"admin_message", "entry_approved"}
RecipientLists ==
    {<<r>> : r \in Recipients}
      \cup {<<r, q>> : r \in Recipients, q \in {x \in Recipients : x.userId # NoUser}}
DeliveryChannels == {"websocket", "email", "sms"}
DeliveryChannelLists ==
    {<<a>> : a \in DeliveryChannels} \cup {<<a, b>> : a \in {"email"}, b \in {"websocket", "sms"}}

WindowSecs == 3600      \* the rate limiter's window: one hour
MaxPerWindow == 10      \* requests the rate limiter admits per key and window

\* checkRateLimit's key: `${recipient.userId || recipient.email}-${template}`
RateKey(recipient, template) ==
    <<IF recipient.userId # NoUser THEN recipient.userId ELSE recipient.email, template>>
RateKeys == {RateKey(r, t) : r \in Recipients, t \in Templates}

\* checkRateLimit at time t: the timestamps it keeps, and its return value
checkRateLimit(rl, recipient, template, t) ==
    LET key == RateKey(recipient, template)
        validTimestamps == SelectSeq(rl[key], LAMBDA ts : t - ts < WindowSecs)
        admitted == Len(validTimestamps) < MaxPerWindow
    IN [limiter |-> [rl EXCEPT ![key] = IF admitted THEN Append(validTimestamps, t)
                                        ELSE validTimestamps],
        admitted |-> admitted]

\* sendNotification's first loop: checkRateLimit for each recipient in turn; the loop
\* body only logs and continues
RECURSIVE RateLimitLoop(_, _, _, _)
RateLimitLoop(rl, recipients, template, t) ==
    IF recipients = <<>> THEN [limiter |-> rl, refused |-> {}]
    ELSE LET check == checkRateLimit(rl, Head(recipients), template, t)
             rest == RateLimitLoop(check.limiter, Tail(recipients), template, t)
         IN [limiter |-> rest.limiter,
             refused |-> rest.refused \cup (IF check.admitted THEN {} ELSE {Head(recipients)})]

\* getUserPreferences(userId).channels: nothing ever stores other than the defaults
getUserPreferences(userId) ==
    IF userId = NoUser THEN {"websocket"} ELSE {"websocket", "email"}

\* a request that ignores the recipient's preferences
enabledChannelsAll(recipient, channels) == channels

\* channels.filter(channel => preferences.channels.includes(channel))
enabledChannels(recipient, channels) ==
    SelectSeq(channels, LAMBDA ch : ch \in getUserPreferences(recipient.userId))

RECURSIVE TasksFor(_, _, _, _)
TasksFor(userId, channels, priority, deliveryGuarantee) ==
    IF channels = <<>> THEN <<>>
    ELSE <<NewTask(userId, Head(channels), priority, deliveryGuarantee)>>
           \o TasksFor(userId, Tail(channels), priority, deliveryGuarantee)

\* sendNotification's second loop: the tasks of every recipient, in order
RECURSIVE deliveryTasks(_, _, _, _)
deliveryTasks(recipients, channels, priority, deliveryGuarantee) ==
    IF recipients = <<>> THEN <<>>
    ELSE TasksFor(Head(recipients).userId, enabledChannels(Head(recipients), channels),
                  priority, deliveryGuarantee)
           \o deliveryTasks(Tail(recipients), channels, priority, deliveryGuarantee)

NoSend == [id |-> 0, recipients |-> <<>>, template |-> "", channels |-> <<>>,
           deliveryGuarantee |-> FALSE, refused |-> {}, returned |-> "none"]

\* sendNotification up to the point the tasks are in the queue; the id it returns is
\* modelled by the number of the call
sendNotification(recipients, template, channels, priority, deliveryGuarantee) ==
    /\ recipients # <<>>
    /\ LET limit == RateLimitLoop(rateLimiter, recipients, template, now)
           tasks == deliveryTasks(recipients, channels, priority, deliveryGuarantee)
       IN /\ Len(deliveryQueue) + Len(tasks) <= MaxTasks
          /\ rateLimiter' = limit.limiter
          /\ deliveryQueue' = deliveryQueue \o tasks
          /\ lastSend' = [id |-> lastSend.id + 1, recipients |-> recipients,
                          template |-> template, channels |-> channels,
                          deliveryGuarantee |-> deliveryGuarantee,
                          refused |-> limit.refused,
                          returned |-> IF Len(tasks) > 0 THEN "notificationId" ELSE "null"]
    /\ UNCHANGED <<ticks, now, tickDue, sweepDue, listeners, browser>>
    /\ UNCHANGED <<wsVars, lastOp, esVars>>

\* channel.send: the email channel is a mock that succeeds; the websocket channel calls
\* sendRealTimeNotification on the WebSocketManager, which has no such method, and
\* reports the TypeError as a failed send
SendSucceeds(task) == task.channel = "email"

\* the tasks a tick selects: pending and due, by priority (stable), at most BatchSize
Ready(q, t) ==
    {i \in DOMAIN q : q[i].status = "pending"
                        /\ (q[i].scheduleAt = NoSchedule \/ t >= q[i].scheduleAt)}

RECURSIVE Ascending(_)
Ascending(S) ==
    IF S = {} THEN <<>>
    ELSE LET i == CHOOSE x \in S : \A y \in S : x <= y IN <<i>> \o Ascending(S \ {i})

Batch(q, t) ==
    LET byRank(k) == Ascending({i \in Ready(q, t) : PriorityRank(q[i].priority) = k})
        sorted == byRank(3) \o byRank(2) \o byRank(1)
    IN SubSeq(sorted, 1, IF Len(sorted) < BatchSize THEN Len(sorted) ELSE BatchSize)

\* processDeliveryTask up to its first await on the store, or to its end
Attempt(task, t) ==
    LET attempts == task.attempts + 1
    IN IF SendSucceeds(task)
       THEN [task EXCEPT !.status = "delivered", !.attempts = attempts, !.tried = t]
       ELSE IF attempts < task.maxAttempts
       THEN [task EXCEPT !.status = "pending", !.attempts = attempts, !.tried = t,
                         !.scheduleAt = t + 2 ^ attempts]
       ELSE [task EXCEPT !.status = "failed", !.attempts = attempts, !.tried = t]

\* the tick's loop over its batch from position i on: it goes on until a task makes it
\* wait for recordNotificationEvent (pos is that task's position) or the batch ends (pos 0)
RECURSIVE RunBatch(_, _, _, _)
RunBatch(q, batch, i, t) ==
    IF i > Len(batch) THEN [queue |-> q, pos |-> 0]
    ELSE LET task == Attempt(q[batch[i]], t)
             after == [q EXCEPT ![batch[i]] = task]
         IN IF task.status \in {"delivered", "failed"}
            THEN [queue |-> after, pos |-> i]
            ELSE RunBatch(after, batch, i + 1, t)

\* the ticks in flight after one of them ran to position pos of its batch
Waiting(batch, pos) == IF pos = 0 THEN <<>> ELSE <<[batch |-> batch, pos |-> pos]>>

\* the interval timer fires: a new tick selects its batch and starts on it
Tick ==
    /\ tickDue
    /\ LET batch == Batch(deliveryQueue, now)
           run == RunBatch(deliveryQueue, batch, 1, now)
       IN /\ deliveryQueue' = run.queue
          /\ ticks' = ticks \o Waiting(batch, run.pos)
    /\ tickDue' = FALSE
    /\ UNCHANGED <<now, sweepDue, rateLimiter, lastSend, listeners, browser>>
    /\ UNCHANGED <<wsVars, lastOp, esVars>>

\* recordNotificationEvent returns to tick k, which goes on with the rest of its batch
RecordReturns(k) ==
    /\ k \in DOMAIN ticks
    /\ LET run == RunBatch(deliveryQueue, ticks[k].batch, ticks[k].pos + 1, now)
       IN /\ deliveryQueue' = run.queue
          /\ ticks' = SubSeq(ticks, 1, k - 1) \o Waiting(ticks[k].batch, run.pos)
                         \o SubSeq(ticks, k + 1, Len(ticks))
    /\ UNCHANGED <<now, tickDue, sweepDue, rateLimiter, lastSend, listeners, browser>>
    /\ UNCHANGED <<wsVars, lastOp, esVars>>

\* a second passes; every TickInterval seconds the timer is due
Advance ==
    /\ ~tickDue
    /\ now < MaxTime
    /\ ((now + 1) % TickInterval = 0) => Len(ticks) < MaxTicks
    /\ now' = now + 1
    /\ tickDue' = ((now + 1) % TickInterval = 0)
    /\ UNCHANGED <<deliveryQueue, ticks, sweepDue, rateLimiter, lastSend, listeners, browser>>
    /\ UNCHANGED <<wsVars, lastOp, esVars>>

WsInit ==
    /\ clients = <<>>
    /\ rooms = <<>>
    /\ userSessions = <<>>
    /\ messageQueue = [c \in ConnIds |-> 0]
    /\ nextClientId = 1
    /\ lastOp = [op |-> "init", c |-> 0, channels |-> <<>>, arg |-> "", closed |-> {}, emitted |-> {}]

EsInit ==
    /\ events = {}
    /\ txns = <<>>
    /\ snapshots = <<>>
    /\ reads = <<>>
    /\ writeEpoch = 0

NsInit ==
    /\ deliveryQueue = <<>>
    /\ rateLimiter = [k \in RateKeys |-> <<>>]
    /\ lastSend = NoSend
    /\ ticks = <<>>
    /\ now = 0
    /\ tickDue = FALSE
    /\ sweepDue = FALSE

-----------------------------------------------------------------------------
(* WebSocketClient: the browser's client (frontend/src/services/websocket-client.js) *)

maxReconnectAttempts == 5

\* the client as its constructor leaves it, with no token in localStorage: initialize()
\* has called connect(). socket is ws.readyState; wire is what ws.send was given, in
\* order; queued is every message that was ever pushed on messageQueue, in order;
\* authPending says that an auth frame of this connection has no answer yet
NewBrowser ==
    [socket |-> "connecting", isConnected |-> FALSE, isAuthenticated |-> FALSE,
     authToken |-> FALSE, authPending |-> FALSE, reconnectAttempts |-> 0,
     timer |-> FALSE, connects |-> 1, nextMessage |-> 1, logins |-> 0,
     messageQueue |-> <<>>, queued |-> <<>>, wire |-> <<>>]

AuthFrame == [type |-> "auth", id |-> 0]

\* send(message): queue while not connected, otherwise hand the frame to the socket
Send(b, message) ==
    IF ~b.isConnected
    THEN [b EXCEPT !.messageQueue = Append(@, message), !.queued = Append(@, message)]
    ELSE [b EXCEPT !.wire = Append(@, message),
                   !.authPending = @ \/ message.type = "auth"]

RECURSIVE SendAll(_, _)
\* messages.forEach(message => this.send(message))
SendAll(b, messages) ==
    IF messages = <<>> THEN b
    ELSE SendAll(Send(b, Head(messages)), Tail(messages))

\* processMessageQueue: empty the queue, then send what it held
processMessageQueue(b) ==
    IF b.messageQueue = <<>> THEN b
    ELSE SendAll([b EXCEPT !.messageQueue = <<>>], b.messageQueue)

\* authenticate(token): keep the token and send the auth frame
Authenticate(b) == Send([b EXCEPT !.authToken = TRUE], AuthFrame)

FeRest == UNCHANGED <<wsVars, lastOp, esVars, nsVars, listeners>>

\* the application calls send() with a message of its own
send ==
    /\ browser.nextMessage <= MaxMessages
    /\ browser' = Send([browser EXCEPT !.nextMessage = @ + 1],
                       [type |-> "message", id |-> browser.nextMessage])
    /\ FeRest

\* the application calls authenticate() after a login
authenticate ==
    /\ ~browser.authToken
    /\ browser.logins < MaxLogins
    /\ browser' = Authenticate([browser EXCEPT !.logins = @ + 1])
    /\ FeRest

\* ws.onopen
handleOpen ==
    /\ browser.socket = "connecting"
    /\ LET b == [browser EXCEPT !.socket = "open", !.isConnected = TRUE,
                                !.reconnectAttempts = 0]
       IN browser' = IF b.authToken THEN Authenticate(b) ELSE b
    /\ FeRest

\* the server answers an auth frame with auth_success
handleAuthSuccess ==
    /\ browser.socket = "open"
    /\ browser.authPending
    /\ browser' = processMessageQueue([browser EXCEPT !.isAuthenticated = TRUE,
                                                      !.authPending = FALSE])
    /\ FeRest

\* the server answers an auth frame with auth_failed (the client's handleAuthFailed)
clientHandleAuthFailed ==
    /\ browser.socket = "open"
    /\ browser.authPending
    /\ browser' = [browser EXCEPT !.isAuthenticated = FALSE, !.authToken = FALSE,
                                  !.authPending = FALSE]
    /\ FeRest

\* ws.onclose; a connection attempt that fails is never a clean close
handleClose(wasClean) ==
    /\ browser.socket \in {"connecting", "open", "closing"}
    /\ wasClean => browser.socket # "connecting"
    /\ LET b == [browser EXCEPT !.socket = "closed", !.isConnected = FALSE,
                                !.isAuthenticated = FALSE, !.authPending = FALSE]
       IN browser' = IF ~wasClean /\ b.reconnectAttempts < maxReconnectAttempts
                     THEN [b EXCEPT !.reconnectAttempts = @ + 1, !.timer = TRUE]
                     ELSE b
    /\ FeRest

\* the timer of scheduleReconnect fires: connect() unless connected by then
reconnect ==
    /\ browser.timer
    /\ IF ~browser.isConnected /\ browser.socket \notin {"connecting", "open"}
       THEN /\ browser.connects < MaxConnects
            /\ browser' = [browser EXCEPT !.timer = FALSE, !.socket = "connecting",
                                          !.connects = @ + 1]
       ELSE browser' = [browser EXCEPT !.timer = FALSE]
    /\ FeRest

\* disconnect(): ws.close(1000), the close event follows
disconnect ==
    /\ browser.socket \in {"connecting", "open"}
    /\ browser' = [browser EXCEPT !.socket = "closing", !.isConnected = FALSE,
                                  !.isAuthenticated = FALSE]
    /\ FeRest

-----------------------------------------------------------------------------
(* Initial states and specifications *)

\* no listener is registered on the store's emitter before the first subscribe
ListenInit == listeners = [ch \in ChannelNames |-> 0]

FeInit == browser = NewBrowser

Init == WsInit /\ EsInit /\ NsInit /\ ListenInit /\ FeInit

RegTokens == {t \in Tokens : t.role >= 2}

Next ==
    \/ handleConnection
    \/ \E c \in ConnIds :
         \/ \E decoded \in RegTokens : handleAuth(c, decoded)
         \/ handleAuthFailed(c, "AUTH_FAILED")
         \/ \E roomId \in RoomIds : handleJoinRoom(c, roomId)
         \/ \E roomId \in RoomIds : handleLeaveRoom(c, roomId)
         \/ handleDisconnection(c)

Spec == Init /\ [][Next]_vars

\* one accepted connection and its frames
SubInit ==
    /\ EsInit /\ NsInit /\ ListenInit /\ FeInit
    /\ clients = (1 :> NewClient)
    /\ rooms = <<>>
    /\ userSessions = <<>>
    /\ messageQueue = [c \in ConnIds |-> 0]
    /\ nextClientId = 2
    /\ lastOp = [op |-> "connection", c |-> 1, channels |-> <<>>, arg |-> "",
                 closed |-> {}, emitted |-> Sent({Frame(1, "connection", "", <<>>, "")}, clients)]

SubNext ==
    \E c \in {1} :
         \/ \E decoded \in Tokens : handleAuth(c, decoded)
         \/ \E channels \in ChannelLists : handleSubscribe(c, channels)
         \/ \E channels \in ChannelLists : handleUnsubscribe(c, channels)
         \/ handleDisconnection(c)
         \/ adminDisconnect(c)

SpecSub == SubInit /\ [][SubNext]_vars

EditTokens == {t \in Tokens : t.userId = "u1"}

\* the sessions index of connections that authenticated once each
SessionsOf(cl) ==
    [u \in {cl[c].userId : c \in DOMAIN cl} \ {NoUser} |->
        {c \in DOMAIN cl : cl[c].userId = u}]

\* two accepted connections, both in every entry room, each anonymous or
\* authenticated once; the first holds no subscription, the second may hold entries:public
EditInit ==
    /\ EsInit /\ NsInit /\ ListenInit /\ FeInit
    /\ \E ident \in [1 .. 2 -> {[userId |-> NoUser, role |-> NoRole]} \cup EditTokens],
          subs \in [1 .. 2 -> SUBSET {"entries:public"}] :
         /\ subs[1] = {}
         /\ ident[2].role # 1
         /\
            clients = [c \in 1 .. 2 |->
                         [userId |-> ident[c].userId, role |-> ident[c].role,
                          subscriptions |-> subs[c], open |-> TRUE,
                          lastHeartbeat |-> 0, lastSignal |-> 0]]
    /\ rooms = [r \in RoomIds |-> {1, 2}]
    /\ userSessions = SessionsOf(clients)
    /\ messageQueue = [c \in ConnIds |-> 0]
    /\ nextClientId = 3
    /\ lastOp = [op |-> "init", c |-> 0, channels |-> <<>>, arg |-> "", closed |-> {}, emitted |-> {}]

EditNext ==
    \/ \E c \in 1 .. 2 :
         \/ \E entryId \in EntryIds :
               /\ c \in DOMAIN clients
               /\ \/ Len(txns) < MaxEdits
                  \/ Unauthenticated(clients[c])
                  \/ RoleLt(clients[c].role, 2)
               /\ handleEntryEdit(c, entryId)
         \/ handleChatMessage(c, RoomOf("42"))
         \/ handleDisconnection(c)
    \/ \E t \in 1 .. MaxEdits :
         \/ TxnRead(t)
         \/ TxnInsert(t)
         \/ TxnCommit(t)
         \/ TxnFail(t)
         \/ EntryEditResume(t)

SpecEdit == EditInit /\ [][EditNext]_vars

\* two editors in the room of one entry, each sending entry_edit frames for it while
\* the other's append is still in its transaction
CollideInit ==
    /\ EsInit /\ NsInit /\ ListenInit /\ FeInit
    /\ clients = (1 :> [NewClient EXCEPT !.userId = "u1", !.role = 2])
                    @@ (2 :> [NewClient EXCEPT !.userId = "u2", !.role = 3])
    /\ rooms = [r \in RoomIds |-> {1, 2}]
    /\ userSessions = SessionsOf(clients)
    /\ messageQueue = [c \in ConnIds |-> 0]
    /\ nextClientId = 3
    /\ lastOp = [op |-> "init", c |-> 0, channels |-> <<>>, arg |-> "", closed |-> {}, emitted |-> {}]

CollideNext ==
    \/ \E c \in 1 .. 2 : handleEntryEdit(c, "42")
    \/ \E t \in 1 .. MaxAppends :
         \/ TxnRead(t)
         \/ TxnInsert(t)
         \/ TxnCommit(t)
         \/ TxnFail(t)
         \/ EntryEditResume(t)

SpecCollide == CollideInit /\ [][CollideNext]_vars

\* MaxMembers accepted connections, the last one anonymous, and one room they join,
\* leave and write to; an administrator may close any of them
RoomInit ==
    /\ EsInit /\ NsInit /\ ListenInit /\ FeInit
    /\ clients = [c \in 1 .. MaxMembers |->
                    IF c < MaxMembers THEN [NewClient EXCEPT !.userId = "u1", !.role = 1]
                    ELSE NewClient]
    /\ rooms = <<>>
    /\ userSessions = SessionsOf(clients)
    /\ messageQueue = [c \in ConnIds |-> 0]
    /\ nextClientId = MaxMembers + 1
    /\ lastOp = [op |-> "init", c |-> 0, channels |-> <<>>, arg |-> "", closed |-> {}, emitted |-> {}]

RoomNext ==
    \E c \in 1 .. MaxMembers :
       \/ handleJoinRoom(c, RoomOf("42"))
       \/ handleLeaveRoom(c, RoomOf("42"))
       \/ c \in DOMAIN clients /\ clients[c].open /\ handleChatMessage(c, RoomOf("42"))
       \/ c \in DOMAIN clients /\ clients[c].open /\ handleTyping(c, RoomOf("42"))
       \/ adminDisconnect(c)
       \/ handleDisconnection(c)

SpecRoom == RoomInit /\ [][RoomNext]_vars

\* two anonymous connections subscribe to and unsubscribe from entries:public while
\* events are appended to the stream of that name
FeedInit ==
    /\ EsInit /\ NsInit /\ ListenInit /\ FeInit
    /\ clients = [c \in 1 .. 2 |-> NewClient]
    /\ rooms = <<>>
    /\ userSessions = <<>>
    /\ messageQueue = [c \in ConnIds |-> 0]
    /\ nextClientId = 3
    /\ lastOp = [op |-> "init", c |-> 0, channels |-> <<>>, arg |-> "", closed |-> {}, emitted |-> {}]

FeedNext ==
    \/ \E c \in 1 .. 2 :
         \/ handleSubscribe(c, <<"entries:public">>)
         \/ handleUnsubscribe(c, <<"entries:public">>)
    \/ appendToStream("entries:public", "public", 1, NoCheck)
    \/ \E t \in 1 .. MaxAppends :
         \/ TxnRead(t)
         \/ TxnInsert(t)
         \/ TxnCommit(t)
         \/ TxnFail(t)
         \/ AppendReturn(t)

SpecFeed == FeedInit /\ [][FeedNext]_vars

\* the browser client alone, started with or without a saved token (loadAuthToken)
ClientInit ==
    /\ WsInit /\ EsInit /\ NsInit /\ ListenInit
    /\ browser \in {NewBrowser, [NewBrowser EXCEPT !.authToken = TRUE]}

ClientNext ==
    \/ send
    \/ authenticate
    \/ handleOpen
    \/ handleAuthSuccess
    \/ clientHandleAuthFailed
    \/ \E wasClean \in BOOLEAN : handleClose(wasClean)
    \/ reconnect
    \/ disconnect

SpecClient == ClientInit /\ [][ClientNext]_vars

\* the same two connections send frames that are refused: a failed auth (no token, or a
\* token jwt.verify rejects) or a frame handleMessage answers itself
FramesNext ==
    \E c \in 1 .. 2 :
       \/ \E code \in {"AUTH_TOKEN_REQUIRED", "AUTH_FAILED"} : handleAuthFailed(c, code)
       \/ \E frame \in RejectedFrames : handleMessage(c, frame)
       \/ \E decoded \in EditTokens : handleAuth(c, decoded)
       \/ adminDisconnect(c)
       \/ handleDisconnection(c)

SpecFrames == EditInit /\ [][FramesNext]_vars

\* appends of one or two events to one stream, of single events to a second one
StoreNext ==
    \/ \E n \in 1 .. 2, v \in {NoCheck, 0, 1} : appendToStream(StreamOf("42"), "42", n, v)
    \/ appendToStream(StreamOf("public"), "public", 1, NoCheck)
    \/ \E t \in 1 .. MaxAppends :
         \/ TxnRead(t)
         \/ TxnInsert(t)
         \/ TxnCommit(t)
         \/ TxnFail(t)
         \/ AppendReturn(t)

SpecStore == Init /\ [][StoreNext]_vars

\* a store that earlier appends and snapshot writes have filled: aggregate 42 has up to
\* MaxAppends events, appended one at a time, and at most one snapshot
ReadInit ==
    /\ WsInit /\ NsInit /\ ListenInit /\ FeInit
    /\ \E k \in 0 .. MaxAppends :
         events = UNION {eventsToInsert(t, [streamId |-> StreamOf("42"), aggregateId |-> "42",
                                               n |-> 1, head |-> t - 1]) : t \in 1 .. k}
    /\ txns = <<>>
    /\ snapshots \in {<<>>} \cup {("42" :> version) : version \in 1 .. 2}
    /\ reads = <<>>
    /\ writeEpoch = 0

\* snapshot writes and aggregate reads over that store
ReadNext ==
    \/ \E version \in 1 .. 2 : createSnapshot("42", version)
    \/ \E fromVersion \in 0 .. 1 : readAggregateEvents("42", fromVersion)
    \/ \E r \in 1 .. MaxReads :
         \/ \E found \in BOOLEAN : ReadSnapshot(r, found)
         \/ ReadEvents(r)
         \/ ReadFail(r)

SpecRead == ReadInit /\ [][ReadNext]_vars

\* notifications for one user over the websocket and the email channel
DeliveryNext ==
    \/ \E channels \in {<<"websocket">>, <<"email">>},
          priority \in {"normal", "urgent"}, deliveryGuarantee \in BOOLEAN :
         sendNotification(<<[userId |-> "u1", email |-> "u1@example.org"]>>, "admin_message",
                          channels, priority, deliveryGuarantee)
    \/ Tick
    \/ \E k \in 1 .. MaxTicks : RecordReturns(k)
    \/ Advance

SpecDelivery == Init /\ [][DeliveryNext]_vars

\* requests of every priority for one user over a channel that delivers
PriorityNext ==
    \/ \E priority \in {"low", "normal", "high", "urgent"} :
         sendNotification(<<[userId |-> "u1", email |-> "u1@example.org"]>>, "admin_message",
                          <<"email">>, priority, FALSE)
    \/ Tick
    \/ \E k \in 1 .. MaxTicks : RecordReturns(k)
    \/ Advance

SpecPriority == Init /\ [][PriorityNext]_vars

\* user u1 holds two authenticated connections, both open, when requests arrive
PushInit ==
    /\ EsInit /\ NsInit /\ ListenInit /\ FeInit
    /\ clients = [c \in {1, 2} |-> [NewClient EXCEPT !.userId = "u1", !.role = 1]]
    /\ rooms = <<>>
    /\ userSessions = ("u1" :> {1, 2})
    /\ messageQueue = [c \in ConnIds |-> 0]
    /\ nextClientId = 3
    /\ lastOp = [op |-> "init", c |-> 0, channels |-> <<>>, arg |-> "", closed |-> {}, emitted |-> {}]

PushNext ==
    \/ \E channels \in {<<"websocket">>, <<"websocket", "email">>}, deliveryGuarantee \in BOOLEAN :
         sendNotification(<<[userId |-> "u1", email |-> "u1@example.org"]>>, "admin_message",
                          channels, "high", deliveryGuarantee)
    \/ Tick
    \/ \E k \in 1 .. MaxTicks : RecordReturns(k)
    \/ Advance

SpecPush == PushInit /\ [][PushNext]_vars

\* n timestamps ts in a rate limiter entry
Filled(n, ts) == [i \in 1 .. n |-> ts]

\* the service after earlier requests for recipient u1 and template admin_message: none,
\* one short of the cap or the cap, admitted now or one hour less three seconds ago.
\* A request for the sms channel alone counts for the rate limiter and queues nothing.
NotifyInit ==
    /\ WsInit /\ EsInit /\ ListenInit /\ FeInit
    /\ deliveryQueue = <<>> /\ lastSend = NoSend
    /\ ticks = <<>> /\ now = 0 /\ tickDue = FALSE /\ sweepDue = FALSE
    /\ \E n \in {0, MaxPerWindow - 1, MaxPerWindow}, ts \in {0, 3 - WindowSecs} :
          rateLimiter = [k \in RateKeys |->
                           IF k = <<"u1", "admin_message">> THEN Filled(n, ts) ELSE <<>>]

NotifyNext ==
    \/ /\ lastSend.id < MaxSends
       /\ \E recipients \in RecipientLists, template \in Templates,
          channels \in DeliveryChannelLists, deliveryGuarantee \in BOOLEAN :
            sendNotification(recipients, template, channels, "high", deliveryGuarantee)
    \/ Advance

SpecNotify == NotifyInit /\ [][NotifyNext]_vars

\* two connections accepted at time 0 that share a room, the first one authenticated
BeatInit ==
    /\ EsInit
    /\ NsInit /\ ListenInit /\ FeInit
    /\ clients = (1 :> [NewClient EXCEPT !.userId = "u1", !.role = 2]) @@ (2 :> NewClient)
    /\ rooms = (RoomOf("42") :> {1, 2})
    /\ userSessions = ("u1" :> {1})
    /\ messageQueue = [c \in ConnIds |-> 0]
    /\ nextClientId = 3
    /\ lastOp = [op |-> "init", c |-> 0, channels |-> <<>>, arg |-> "", closed |-> {}, emitted |-> {}]

\* the 'close' event the transport raises after terminate() or close()
Closing == \E c \in DOMAIN clients : ~clients[c].open /\ handleDisconnection(c)

\* frames arrive on open sockets only; a client may close at any time
BeatNext ==
    \/ Elapse
    \/ Sweep
    \/ \E c \in {1, 2} :
         \/ c \in DOMAIN clients /\ clients[c].open /\ handlePong(c)
         \/ c \in DOMAIN clients /\ clients[c].open /\ handleHeartbeat(c)
         \/ c \in DOMAIN clients /\ clients[c].open /\ handleChatMessage(c, RoomOf("42"))
         \/ handleDisconnection(c)

SpecBeat == BeatInit /\ [][BeatNext]_vars /\ WF_vars(Closing)

----------------------------------------------------------------------------
(* Properties of the connection registry *)

\* the registries that still mention connection c
HoldersOf(c) ==
    [inClients |-> c \in DOMAIN clients,
     inRooms |-> {r \in DOMAIN rooms : c \in rooms[r]},
     inSessions |-> {u \in DOMAIN userSessions : c \in userSessions[u]}]

\* C1: once handleDisconnection(c) has run, c is in no registry: not in clients, not in
\* the member set of any room, not in the session set of any user, whatever sequence of
\* auth (repeated auth included), join and leave frames came before.
C1_DisconnectRemovesEverywhere ==
    lastOp.op = "disconnect" =>
        HoldersOf(lastOp.c) = [inClients |-> FALSE, inRooms |-> {}, inSessions |-> {}]

\* getStats().authenticatedUsers: userSessions.size
authenticatedUsers == Cardinality(DOMAIN userSessions)

\* C21: the session index mirrors the registry: for every user, the session set is
\* exactly the set of registered connections bound to that user, no user maps to an
\* empty set, and so authenticatedUsers counts the identities bound to live connections.
C21_SessionsMirrorRegistry ==
    /\ \A u \in DOMAIN userSessions :
          /\ userSessions[u] # {}
          /\ userSessions[u] = {c \in DOMAIN clients : clients[c].userId = u}
    /\ \A c \in DOMAIN clients :
          clients[c].userId # NoUser
            => clients[c].userId \in DOMAIN userSessions /\ c \in userSessions[clients[c].userId]
    /\ authenticatedUsers
          = Cardinality({clients[c].userId : c \in {k \in DOMAIN clients : clients[k].userId # NoUser}})

\* C8: the room map never holds a room without members: a room appears with its first
\* join and goes in the very step that removes its last member (leave or disconnect), so
\* the number of rooms is the number of rooms with at least one member.
C8_NoEmptyRoom ==
    /\ \A r \in DOMAIN rooms : rooms[r] # {}
    /\ Cardinality(DOMAIN rooms)
         = Cardinality({r \in RoomIds : \E c \in ConnIds :
                                          r \in DOMAIN rooms /\ c \in rooms[r]})

\* C8 happens: a leave_room frame has just taken the last member out of a room, and the
\* room went with it while another room lives on
C8_Witness ==
    /\ lastOp.op = "leave_room"
    /\ lastOp.closed = {lastOp.arg}
    /\ lastOp.arg \notin DOMAIN rooms
    /\ rooms # <<>>

\* C10: once auth has bound an identity and a role to a connection, no later frame on that
\* connection, another valid auth included, changes them while the connection is registered.
C10_IdentityImmutable ==
    [][\A c \in DOMAIN clients :
          (clients[c].userId # NoUser /\ c \in DOMAIN clients')
             => /\ clients'[c].userId = clients[c].userId
                /\ clients'[c].role = clients[c].role]_vars

----------------------------------------------------------------------------
(* Properties of subscribe *)

\* the frames of the last step addressed to connection c
FramesTo(c) == {m.frame : m \in {x \in lastOp.emitted : x.frame.to = c}}

\* C29: every channel a connection is subscribed to is in the allowed-channel set of the
\* role the connection is bound to now (the anonymous tier while unauthenticated),
\* whatever auth, subscribe and unsubscribe frames it has sent.
C29_SubscriptionsWithinRole ==
    \A c \in DOMAIN clients : clients[c].subscriptions \subseteq getAllowedChannels(clients[c].role)

\* the event frames a step has passed to sendToClient for connection c
EventFramesTo(c) ==
    {m \in lastOp'.emitted : m.frame.type = "event" /\ m.frame.to = c}

\* C30: for a channel whose name starts with "entries:", an event appended to the stream
\* of that name brings a connection that is subscribed to the channel at most one event
\* frame, and a connection that is not subscribed none, however many subscribe frames
\* were handled before.
C30_OneFramePerSubscriber ==
    [][lastOp'.op = "eventAppended"
         => \A c \in DOMAIN clients :
               /\ \A m \in EventFramesTo(c) : m.frame.room \in clients[c].subscriptions
               /\ \A m, k \in EventFramesTo(c) :
                     (m.frame.room = k.frame.room /\ m.frame.channels = k.frame.channels)
                       => m = k]_vars

\* C7: a subscribe frame with any list of channel names adds to the connection's
\* subscription set exactly the requested names that the allowed-channel set of the
\* connection's current role contains (the anonymous tier when unauthenticated), sends no
\* error frame, and answers with one subscribed frame that lists exactly the granted
\* names; an anonymous request for ["admin:*"] is answered with an empty list.
C7_SubscribeGrantsAllowed ==
    [][lastOp'.op = "subscribe" =>
         LET c == lastOp'.c
             requested == Range(lastOp'.channels)
             allowed == getAllowedChannels(clients[c].role)
             granted == requested \cap allowed
         IN /\ clients'[c].subscriptions = clients[c].subscriptions \cup granted
            /\ \A m \in lastOp'.emitted : m.frame.type # "error"
            /\ \E f \in {m.frame : m \in lastOp'.emitted} :
                  /\ {m.frame : m \in lastOp'.emitted} = {f}
                  /\ f.to = c
                  /\ f.type = "subscribed"
                  /\ Range(f.channels) = granted
                  /\ (clients[c].userId = NoUser /\ lastOp'.channels = <<"admin:*">>
                        => f.channels = <<>>)]_vars

\* C7 happens: an anonymous connection asked for a public and an admin channel and was
\* granted the public one alone
C7_Witness ==
    /\ lastOp.op = "subscribe"
    /\ lastOp.channels = <<"entries:public", "admin:*">>
    /\ lastOp.c \in DOMAIN clients
    /\ clients[lastOp.c].userId = NoUser
    /\ clients[lastOp.c].subscriptions = {"entries:public"}
    /\ \E f \in FramesTo(lastOp.c) : f.type = "subscribed" /\ f.channels = <<"entries:public">>

----------------------------------------------------------------------------
(* Properties of the event store *)

\* C2: whatever the interleaving of appends that succeed and appends that fail, the
\* committed events of every stream carry the sequence numbers 1..n, none twice and none
\* missing, and readStreamEvents returns all of them in strictly increasing order.
C2_ContiguousSequence ==
    \A s \in StreamIds :
        LET E == StreamEvents(events, s)
            r == readStreamEvents(s, 0, Cardinality(events))
        IN /\ {e.sequenceNumber : e \in E} = 1 .. Cardinality(E)
           /\ Len(r) = Cardinality(E)
           /\ Range(r) = E
           /\ \A i \in 1 .. Len(r) - 1 : r[i].sequenceNumber < r[i + 1].sequenceNumber

\* C2 happens: a stream holds the events of a successful append while another append to
\* it lost a write conflict, ran again and failed
C2_Witness ==
    \E s \in StreamIds, t \in DOMAIN txns :
        /\ Cardinality(StreamEvents(events, s)) >= 2
        /\ txns[t].streamId = s
        /\ txns[t].pc = "failed"
        /\ txns[t].retries >= 1

\* two calls of appendToStream that were both made on the same stream with the same
\* expected version while that version was the head, and that have both settled
\* without a failure of the store, no third call having written past that head
RacedOnHead(t, u) ==
    /\ t # u
    /\ txns[t].streamId = txns[u].streamId
    /\ txns[t].expectedVersion # NoCheck
    /\ txns[t].expectedVersion = txns[u].expectedVersion
    /\ txns[t].base = txns[t].expectedVersion
    /\ txns[u].base = txns[u].expectedVersion
    /\ {txns[t].pc, txns[u].pc} \subseteq {"done", "failed"}
    /\ "StoreError" \notin {txns[t].err, txns[u].err}
    /\ \A e \in StreamEvents(events, txns[t].streamId) :
          e.sequenceNumber > txns[t].expectedVersion => e.txn \in {t, u}

C9_ReadsRepeat ==
    \A r1, r2 \in DOMAIN reads :
        (/\ reads[r1].pc = "done" /\ reads[r2].pc = "done"
         /\ reads[r1].aggregateId = reads[r2].aggregateId
         /\ reads[r1].fromVersion = reads[r2].fromVersion
         /\ {reads[r1].epoch0, reads[r1].epoch1, reads[r2].epoch0, reads[r2].epoch1}
               = {writeEpoch})
           => reads[r1].result = reads[r2].result

\* the events a call has persisted, as a list in input order
Persisted(t, tx) ==
    [i \in 1 .. tx.n |-> CHOOSE e \in eventsToInsert(t, tx) : e.index = i]

\* C22: a call of appendToStream that succeeded with n events on a stream of head h has
\* returned the n persisted events, of sequence numbers h+1 .. h+n in input order.
C22_AppendReturnsEvents ==
    \A t \in DOMAIN txns :
       (txns[t].pc = "done" /\ txns[t].owner = 0)
         => /\ txns[t].result.defined
            /\ txns[t].result.events = Persisted(t, txns[t])
            /\ \A i \in 1 .. txns[t].n :
                  txns[t].result.events[i].sequenceNumber = txns[t].head + i

\* C18: on every stream the events are emitted in increasing sequence-number order:
\* when a call of appendToStream emits its events, no sequence number emitted on that
\* stream before, by whichever call, is above the first one it emits.
C18_EmitInOrder ==
    [][\A t \in DOMAIN txns :
          (txns[t].pc = "insert" /\ txns'[t].pc = "commit" /\ txns[t].n > 0)
            => \A u \in (DOMAIN txns) \ {t} :
                  txns[u].streamId = txns[t].streamId
                    => txns[u].emitted <= txns[t].head + 1]_vars

----------------------------------------------------------------------------
(* Properties of the delivery processor *)

\* C4: a task with deliveryGuarantee whose send always fails is attempted exactly 5
\* times and then is failed; after its k-th failed attempt (k < 5) it is not attempted
\* again before 2^k seconds have passed.
C4_FiveAttemptsWithBackoff ==
    [][\A i \in DOMAIN deliveryQueue' :
          LET task == deliveryQueue'[i]
          IN (task.deliveryGuarantee /\ ~SendSucceeds(task))
               => /\ task.attempts <= 5
                  /\ task.status = "failed" => task.attempts = 5
                  /\ (i \in DOMAIN deliveryQueue
                        /\ deliveryQueue[i].attempts >= 1
                        /\ task.attempts > deliveryQueue[i].attempts)
                       => now >= deliveryQueue[i].tried + 2 ^ deliveryQueue[i].attempts]_vars

\* C17: a task whose status is delivered or failed is never touched again: no step, of
\* whichever tick, changes its status, raises its attempts or sends it once more.
C17_TerminalStatus ==
    [][\A i \in DOMAIN deliveryQueue :
          deliveryQueue[i].status \in {"delivered", "failed"}
            => deliveryQueue'[i] = deliveryQueue[i]]_vars

----------------------------------------------------------------------------
(* Properties of the collaboration commands *)

\* the calls of appendToStream on a stream whose events are committed
CommittedOn(streamId) ==
    {t \in DOMAIN txns : txns[t].streamId = streamId /\ txns[t].pc \in {"committed", "done"}}

\* the frame type a room fan-out of the handler op sends
FanOutType(op) ==
    CASE op = "chat_message" -> "chat_message"
      [] op = "typing" -> "user_typing"
      [] op = "join_room" -> "user_joined"

\* C27: the room fan-out of a chat_message, a typing or a join_room frame (of an
\* authenticated sender for the first two) passes the frame to sendToClient for exactly
\* the members of the room other than the sender, so for no connection outside the room
\* and never for the sender; the frame is written to every such member whose transport is
\* open, whatever the state of the other members; and the count broadcastToRoom returns
\* is the number of frames written.
C27_RoomFanOut ==
    [][(/\ lastOp'.op \in {"chat_message", "typing", "join_room"}
        /\ lastOp'.op # "join_room" => clients[lastOp'.c].userId # NoUser)
         => LET c == lastOp'.c
                roomId == lastOp'.arg
                members == IF roomId \in DOMAIN rooms' THEN rooms'[roomId] ELSE {}
                fan == {m \in lastOp'.emitted : m.frame.type = FanOutType(lastOp'.op)}
            IN /\ {m.frame.to : m \in fan} = members \ {c}
               /\ \A m \in fan : m.delivered <=> clients[m.frame.to].open
               /\ \A m \in lastOp'.emitted :
                     m.frame.type \in {"chat_message", "user_typing", "user_joined"}
                       => m \in fan
               /\ sentCount(rooms', clients, roomId, {c})
                     = Cardinality({m \in fan : m.delivered})]_vars

\* a chat message in a room of three: one member is unreachable, the other gets the frame
C27_Witness ==
    /\ lastOp.op = "chat_message"
    /\ lastOp.arg \in DOMAIN rooms
    /\ \E m, k \in rooms[lastOp.arg] \ {lastOp.c} :
          /\ ~clients[m].open /\ clients[k].open
          /\ [frame |-> Frame(m, "chat_message", "", <<>>, lastOp.arg), delivered |-> FALSE]
                \in lastOp.emitted
          /\ [frame |-> Frame(k, "chat_message", "", <<>>, lastOp.arg), delivered |-> TRUE]
                \in lastOp.emitted

\* positions of a frame in a sequence of frames
PositionsOf(frames, m) == {i \in DOMAIN frames : frames[i] = m}

\* the application messages that were queued at some time, in the order of their queueing
QueuedMessages == SelectSeq(browser.queued, LAMBDA m : m.type = "message")

\* C24: every message passed to send() while the browser client is not connected is
\* queued; it is handed to the socket at most once and never lost; queued messages
\* reach the socket in the order of their queueing; and once the connection stands
\* again (connected, no answer to an auth frame outstanding) none is left in the
\* queue, with or without an auth token.
C24_QueuedSentOnReconnect ==
    /\ \A i \in DOMAIN QueuedMessages :
          LET m == QueuedMessages[i]
          IN Cardinality(PositionsOf(browser.wire, m))
               + Cardinality(PositionsOf(browser.messageQueue, m)) = 1
    /\ \A i, j \in DOMAIN QueuedMessages :
          (i < j /\ PositionsOf(browser.wire, QueuedMessages[j]) # {})
            => \E k \in PositionsOf(browser.wire, QueuedMessages[i]),
                  l \in PositionsOf(browser.wire, QueuedMessages[j]) : k < l
    /\ (browser.isConnected /\ ~browser.authPending) => browser.messageQueue = <<>>

\* the event an edit's transaction stored
EventsOf(t) == {e \in events : e.txn = t}

\* edits of one entry that have been answered and that no store failure hit
AnsweredEdits(entryId) ==
    {t \in DOMAIN txns : /\ txns[t].owner # 0
                         /\ txns[t].entryId = entryId
                         /\ txns[t].pc \in {"done", "failed"}
                         /\ txns[t].err # "StoreError"}

\* C23: two entry_edit commands for the same entry whose appends (both with the
\* sentinel -1) run concurrently both succeed unless the store itself fails: each
\* stores one event in stream entry-<id>, the two events carry distinct sequence
\* numbers, the stream's numbers run 1, 2, ... without gap, and neither sender is
\* answered with an error frame (an edit ends "failed" exactly when EDIT_FAILED was sent).
C23_ConcurrentEditsBothLand ==
    \A entryId \in EntryIds :
       /\ \A t \in AnsweredEdits(entryId) :
             /\ txns[t].pc = "done"
             /\ Cardinality(EventsOf(t)) = 1
             /\ \A e \in EventsOf(t) : e.streamId = StreamOf(entryId)
       /\ \A t, u \in AnsweredEdits(entryId) :
             t # u => \A e \in EventsOf(t), f \in EventsOf(u) :
                         e.sequenceNumber # f.sequenceNumber
       /\ AnsweredEdits(entryId) # {}
             => {e.sequenceNumber : e \in StreamEvents(events, StreamOf(entryId))}
                  = 1 .. Cardinality(StreamEvents(events, StreamOf(entryId)))

\* the second edit was stored first: the two transactions overlapped
C23_Witness ==
    /\ AnsweredEdits("42") = {1, 2}
    /\ \E e \in EventsOf(1), f \in EventsOf(2) :
          e.sequenceNumber = 2 /\ f.sequenceNumber = 1

\* C25: what appendToStream emits (eventAppended and the stream: and event: topics) is
\* what it commits: a call whose transaction aborted has emitted nothing, and a call
\* whose transaction committed has emitted its events, up to the last one it stored.
C25_EmittedIsCommitted ==
    \A t \in DOMAIN txns :
       /\ txns[t].pc \in {"thrown", "failed"} => txns[t].emitted = 0
       /\ (txns[t].pc \in {"committed", "done"} /\ txns[t].n > 0)
            => txns[t].emitted = Max({e.sequenceNumber : e \in EventsOf(t)})

\* C5: with A and B both in room entry-<id>, an entry_edit of A (authenticated, editor or
\* higher) for that id appends exactly one event to stream entry-<id> at the next
\* sequence number, B receives an entry_updated frame for the edit and A receives none.
C5_EditReachesRoom ==
    (/\ lastOp.op = "entry_edit_done"
     /\ lastOp.c \in DOMAIN clients
     /\ clients[lastOp.c].role \in {2, 3}) =>
        LET a == lastOp.c
            room == RoomOf(lastOp.arg)
            stream == StreamOf(lastOp.arg)
        IN /\ Cardinality(StreamEvents(events, stream)) = Cardinality(CommittedOn(stream))
           /\ {e.sequenceNumber : e \in StreamEvents(events, stream)}
                 = 1 .. Cardinality(StreamEvents(events, stream))
           /\ \A f \in FramesTo(a) : f.type # "entry_updated"
           /\ \A b \in ConnIds \ {a} :
                 (room \in DOMAIN rooms /\ {a, b} \subseteq rooms[room])
                    => \E f \in FramesTo(b) : f.type = "entry_updated"

\* C11: an entry_edit starts an append to entry-<id> (and later fans out entry_updated)
\* only when its sender is authenticated with a bound role of editor or higher; from an
\* authenticated sender with any other bound role, a lower one or none in the credential,
\* it is answered with an error frame to the sender and starts no append.
C11_EditNeedsEditor ==
    [][(lastOp'.op = "entry_edit" /\ lastOp'.c \in DOMAIN clients)
         => LET sender == clients[lastOp'.c]
            IN IF sender.userId # NoUser /\ sender.role \in {2, 3}
               THEN TRUE
               ELSE /\ txns' = txns
                    /\ events' = events
                    /\ \E m \in lastOp'.emitted :
                          m.frame.to = lastOp'.c /\ m.frame.type = "error"]_vars

\* the registry without its activity timestamps: who is registered, under which identity
\* and role, with which subscriptions, and whether the socket is open
Bound(cl) ==
    [c \in DOMAIN cl |-> [userId |-> cl[c].userId, role |-> cl[c].role,
                           subscriptions |-> cl[c].subscriptions, open |-> cl[c].open]]

----------------------------------------------------------------------------
(* Properties of refused frames *)

\* C19: an auth frame without a credential or with one that does not verify is answered
\* with one error frame to the sender and changes nothing else: the connection stays
\* registered and as open as it was, with the identity, role and subscriptions it had,
\* and the rooms and the session index stay as they were.
C19_FailedAuthChangesNothing ==
    [][lastOp'.op = "auth_failed"
         => /\ lastOp'.c \in DOMAIN clients
            /\ lastOp'.arg \in {"AUTH_TOKEN_REQUIRED", "AUTH_FAILED"}
            /\ lastOp'.emitted =
                  {[frame |-> sendError(lastOp'.c, lastOp'.arg),
                    delivered |-> clients[lastOp'.c].open]}
            /\ Bound(clients') = Bound(clients)
            /\ rooms' = rooms
            /\ userSessions' = userSessions]_vars

\* C19 happens: an open connection that holds an identity, a room and a subscription has
\* sent an auth frame whose token does not verify, and got the error frame
C19_Witness ==
    /\ lastOp.op = "auth_failed" /\ lastOp.arg = "AUTH_FAILED"
    /\ lastOp.c \in DOMAIN clients
    /\ clients[lastOp.c].userId # NoUser
    /\ clients[lastOp.c].open
    /\ clients[lastOp.c].subscriptions # {}
    /\ \E r \in DOMAIN rooms : lastOp.c \in rooms[r]
    /\ lastOp.c \in userSessions[clients[lastOp.c].userId]
    /\ \E m \in lastOp.emitted : m.delivered /\ m.frame.type = "error"

\* the code the dispatcher is to answer a refused frame with
StatedCode(frame) ==
    CASE frame = "not json" -> "INVALID_JSON"
      [] frame \in {"null", "no type"} -> "MISSING_TYPE"
      [] OTHER -> "UNKNOWN_MESSAGE_TYPE"

\* C20: a frame that is no JSON, has no type or has an unknown type is answered with
\* exactly one error frame to the sender, of code INVALID_JSON, MISSING_TYPE or
\* UNKNOWN_MESSAGE_TYPE respectively, and neither removes the connection nor changes
\* the rooms, the subscriptions or the session index.
C20_RefusedFrameAnswered ==
    [][lastOp'.op = "message"
         => /\ lastOp'.emitted =
                  {[frame |-> sendError(lastOp'.c, StatedCode(lastOp'.arg)),
                    delivered |-> clients[lastOp'.c].open]}
            /\ Bound(clients') = Bound(clients)
            /\ rooms' = rooms
            /\ userSessions' = userSessions]_vars

\* what holds of every refused frame, null included: one error frame to the sender, of
\* some code, and the registry, rooms, subscriptions and session index as they were
RefusedFrameKeepsState ==
    [][lastOp'.op = "message"
         => /\ \E code \in {"INVALID_JSON", "MISSING_TYPE", "UNKNOWN_MESSAGE_TYPE", "INTERNAL_ERROR"} :
                  lastOp'.emitted = {[frame |-> sendError(lastOp'.c, code),
                                      delivered |-> clients[lastOp'.c].open]}
            /\ Bound(clients') = Bound(clients)
            /\ rooms' = rooms
            /\ userSessions' = userSessions]_vars

----------------------------------------------------------------------------
(* Properties of sendNotification *)

\* the tasks a step appended to the delivery queue
NewTasks == SubSeq(deliveryQueue', Len(deliveryQueue) + 1, Len(deliveryQueue'))

\* how often x occurs in the list s
Occurrences(x, s) == Cardinality({i \in DOMAIN s : s[i] = x})

\* the requests for a key the rate limiter has admitted within the last hour
AdmittedInWindow(recipient, template) ==
    Cardinality({i \in DOMAIN rateLimiter[RateKey(recipient, template)] :
                   now - rateLimiter[RateKey(recipient, template)][i] < WindowSecs})

\* the tasks a step of the delivery processor has attempted
Attempted == {i \in DOMAIN deliveryQueue : deliveryQueue'[i].attempts > deliveryQueue[i].attempts}

\* C26: a tick of the delivery processor takes at most ten ready tasks, in the order
\* urgent > high > normal > low: when the tick starts on a task, every task that was
\* ready at the tick and has not been attempted yet (later in the batch, or left out of
\* it) is of no higher priority than that task.
C26_TickFollowsPriority ==
    [][(tickDue /\ ~tickDue')
         => /\ Cardinality(Attempted) <= BatchSize
            /\ \A i \in Attempted :
                  \A j \in Ready(deliveryQueue, now) \ Attempted :
                     priorityOrder(deliveryQueue[j].priority)
                       <= priorityOrder(deliveryQueue[i].priority)]_vars

\* C28: no delivery task is ever attempted more often than its maxAttempts allows,
\* overlapping ticks included.
C28_AttemptsWithinMax ==
    \A i \in DOMAIN deliveryQueue : deliveryQueue[i].attempts <= deliveryQueue[i].maxAttempts

\* C14: a sendNotification request for a recipient and template for which ten requests
\* were admitted within the last hour creates no task for that recipient.
C14_BeyondCapNoTask ==
    [][lastSend'.id = lastSend.id + 1
         => \A r \in Range(lastSend'.recipients) :
               AdmittedInWindow(r, lastSend'.template) >= MaxPerWindow
                 => \A i \in DOMAIN NewTasks : NewTasks[i].userId # r.userId]_vars

C15_NullReturned ==
    /\ lastSend.returned = "null"
    /\ lastSend.channels = <<"sms">>

\* the open connections in the session set of user u
OpenSessions(u) ==
    IF u \in DOMAIN userSessions
    THEN {c \in userSessions[u] : c \in DOMAIN clients /\ clients[c].open}
    ELSE {}

\* C16: when the processor attempts a websocket task of a user who holds at least one
\* open authenticated connection, the task becomes delivered and the step passes a
\* notification frame to each of the user's open connections.
C16_PushReachesSessions ==
    [][\A i \in DOMAIN deliveryQueue :
          (/\ deliveryQueue[i].channel = "websocket"
           /\ deliveryQueue'[i].attempts > deliveryQueue[i].attempts
           /\ OpenSessions(deliveryQueue[i].userId) # {})
             => /\ deliveryQueue'[i].status = "delivered"
                /\ \A c \in OpenSessions(deliveryQueue[i].userId) :
                      \E m \in lastOp'.emitted :
                         m.frame.to = c /\ m.frame.type = "notification"]_vars

----------------------------------------------------------------------------
(* Properties of the backlog *)

\* C13: the backlog sendToClient keeps for a connection id is bounded by a limit of its
\* own: however much room the model gives the backlog, sendToClient stops short of it.
C13_BacklogBounded == \A c \in ConnIds : messageQueue[c] < MaxQueue

----------------------------------------------------------------------------
(* Properties of the heartbeat *)

\* the connections a sweep pinged
Pinged(op) == {m.frame.to : m \in {x \in op.emitted : x.frame.type = "ping"}}

C12_Removed ==
    /\ lastOp.op = "disconnect"
    /\ lastOp.c \notin DOMAIN clients
    /\ now >= HeartbeatInterval * 3
    /\ DOMAIN clients # {}
====
